---- MODULE Spec2Model ----
(***************************************************************************)
(* Model of cod-stats-parser: the HTML section extractor                   *)
(* (src/src/lib/functions/parse.ts), the worker that serves requests       *)
(* (src/src/index.ts) and the upload of a result to the bucket             *)
(* (src/src/lib/functions/upload.ts).                                      *)
(*                                                                         *)
(* A document is the tree parseDocument returns.  A node is a record       *)
(*   [type, name, data, children]                                          *)
(* with type "root", "tag" or "text".  A node is identified by its path    *)
(* from the root (the sequence of child indices), so that two nodes with   *)
(* the same content are still different nodes, as in the DOM.              *)
(*                                                                         *)
(* A string is a sequence of chunks; the chunk " " is white space, every   *)
(* other chunk is a run of text that neither starts nor ends with white    *)
(* space.  Concatenation is \o, and trim drops the white-space chunks at   *)
(* both ends.                                                              *)
(*                                                                         *)
(* A JavaScript object is an insertion-ordered map: a sequence of          *)
(* <<key, value>> pairs with pairwise different keys.  Keys range over     *)
(* ordinary property names (no integer-like names, which JavaScript        *)
(* orders first, and no reserved names such as __proto__).                 *)
(***************************************************************************)
EXTENDS Integers, Sequences, FiniteSets, TLC

VARIABLES root, h1Elements, parsed, i, sibling, tableNode, tableData, pc,
          input, history, requests, now, MY_BUCKET, running

\* the callers' side: the document handed to the running call and the calls
\* that returned; the worker's requests, the clock, the bucket, and the
\* request whose handler is running the extractor
callers == <<input, history, requests, now, MY_BUCKET, running>>

vars == <<root, h1Elements, parsed, i, sibling, tableNode, tableData, pc, callers>>

(***************************************************************************)
(* Bounds of the explored inputs.                                          *)
(***************************************************************************)
MaxTop == 4

MaxNodes == 6

(***************************************************************************)
(* Whitelists (src/src/lib/constants/whitelist.ts).                        *)
(***************************************************************************)
H1_WHITELIST ==
    { <<"Call of Duty: Black Ops 6">>,
      <<"Call of Duty: Black Ops Cold War">>,
      <<"Activision Account Shared">>,
      <<"Call of Duty: Modern Warfare">>,
      <<"Call of Duty: Modern Warfare II">>,
      <<"Call of Duty: Modern Warfare III">>,
      <<"Call of Duty: Vanguard">>,
      <<"Call of Duty: Warzone 2.0">>,
      <<"Call of Duty: Warzone Mobile">> }

H2_WHITELIST ==
    { <<"Campaign Checkpoint Data (reverse chronological)">>,
      <<"Multiplayer Match Data (reverse chronological)">>,
      <<"PromoCodes">>,
      <<"Zombies Match Data (reverse chronological)">>,
      <<"Campaign Data (reverse chronological)">>,
      <<"Sessions Data (reverse chronological)">>,
      <<"Zombies Data (reverse chronological)">>,
      <<"Gamertag Data (reverse chronological)">>,
      <<"CoOp Match Data (reverse chronological)">>,
      <<"Mobile Hardware Data (reverse chronological)">> }

(***************************************************************************)
(* The DOM.                                                                *)
(***************************************************************************)
NULL == <<0>>

Text(d) == [type |-> "text", name |-> "", data |-> d, children |-> <<>>]

Tag(n, kids) == [type |-> "tag", name |-> n, data |-> <<>>, children |-> kids]

Document(kids) == [type |-> "root", name |-> "", data |-> <<>>, children |-> kids]

RECURSIVE NodeAt(_, _)
NodeAt(node, path) ==
    IF path = <<>> THEN node
    ELSE NodeAt(node.children[Head(path)], Tail(path))

isTag(node, n) == node.type = "tag" /\ node.name = n

parentOf(path) == SubSeq(path, 1, Len(path) - 1)

nextSibling(r, path) ==
    IF path = <<>> \/ path = NULL THEN NULL
    ELSE LET k == path[Len(path)]
         IN  IF k < Len(NodeAt(r, parentOf(path)).children)
             THEN Append(parentOf(path), k + 1)
             ELSE NULL

\* DomUtils.findAll: the elements named n among the node at path and its
\* descendants, in document order.
RECURSIVE findAll(_, _, _), findAllIn(_, _, _, _)
findAll(n, r, path) ==
    LET node == NodeAt(r, path)
    IN  (IF isTag(node, n) THEN <<path>> ELSE <<>>) \o findAllIn(n, r, path, 1)
findAllIn(n, r, path, k) ==
    IF k > Len(NodeAt(r, path).children) THEN <<>>
    ELSE findAll(n, r, Append(path, k)) \o findAllIn(n, r, path, k + 1)

\* DomUtils.textContent: the data of the text nodes below node, concatenated.
RECURSIVE textContent(_), textOfChildren(_, _)
textContent(node) ==
    IF node.type = "text" THEN node.data ELSE textOfChildren(node, 1)
textOfChildren(node, k) ==
    IF k > Len(node.children) THEN <<>>
    ELSE textContent(node.children[k]) \o textOfChildren(node, k + 1)

\* String.prototype.trim
RECURSIVE trimStart(_)
trimStart(s) == IF s # <<>> /\ Head(s) = " " THEN trimStart(Tail(s)) ELSE s

RECURSIVE trimEnd(_)
trimEnd(s) ==
    IF s # <<>> /\ s[Len(s)] = " " THEN trimEnd(SubSeq(s, 1, Len(s) - 1)) ELSE s

trim(s) == trimEnd(trimStart(s))

(***************************************************************************)
(* JavaScript objects.                                                     *)
(***************************************************************************)
Keys(o) == { o[j][1] : j \in DOMAIN o }

HasKey(o, k) == \E j \in DOMAIN o : o[j][1] = k

Get(o, k) == o[CHOOSE j \in DOMAIN o : o[j][1] = k][2]

\* Mutant of Put: an existing key keeps its value.
PutIfAbsent(o, k, v) == IF HasKey(o, k) THEN o ELSE Append(o, <<k, v>>)

\* o[k] = v
Put(o, k, v) ==
    IF HasKey(o, k)
    THEN [j \in DOMAIN o |-> IF o[j][1] = k THEN <<k, v>> ELSE o[j]]
    ELSE Append(o, <<k, v>>)

(***************************************************************************)
(* parseSingleTable (parse.ts 150-173).                                    *)
(***************************************************************************)
\* Mutant of forEachTd: the cell text is not trimmed.
RECURSIVE forEachTdRaw(_, _, _, _, _)
forEachTdRaw(r, headers, tds, k, rowObj) ==
    IF k > Len(tds) THEN rowObj
    ELSE forEachTdRaw(r, headers, tds, k + 1,
                      Put(rowObj, headers[k], textContent(NodeAt(r, tds[k]))))

\* tds.forEach((td, i) => rowObj[headers[i]] = textContent(td).trim())
RECURSIVE forEachTd(_, _, _, _, _)
forEachTd(r, headers, tds, k, rowObj) ==
    IF k > Len(tds) THEN rowObj
    ELSE forEachTd(r, headers, tds, k + 1,
                   Put(rowObj, headers[k], trim(textContent(NodeAt(r, tds[k])))))

tableHeaders(r, tablePath) ==
    LET ths == findAll("th", r, tablePath)
    IN  [j \in 1..Len(ths) |-> trim(textContent(NodeAt(r, ths[j])))]

\* Mutant of forEachRow: a row with fewer data cells than headers is kept.
RECURSIVE forEachRowLoose(_, _, _, _, _)
forEachRowLoose(r, headers, rows, k, acc) ==
    IF k > Len(rows) THEN acc
    ELSE LET tds == findAll("td", r, rows[k])
         IN  forEachRowLoose(r, headers, rows, k + 1,
                             IF Len(tds) <= Len(headers)
                             THEN Append(acc, forEachTd(r, headers, tds, 1, <<>>))
                             ELSE acc)

\* the loop of lines 160-170
RECURSIVE forEachRow(_, _, _, _, _)
forEachRow(r, headers, rows, k, acc) ==
    IF k > Len(rows) THEN acc
    ELSE LET tds == findAll("td", r, rows[k])
         IN  forEachRow(r, headers, rows, k + 1,
                        IF Len(tds) = Len(headers)
                        THEN Append(acc, forEachTd(r, headers, tds, 1, <<>>))
                        ELSE acc)

parseSingleTable(r, tablePath) ==
    forEachRow(r, tableHeaders(r, tablePath), findAll("tr", r, tablePath), 1, <<>>)

(***************************************************************************)
(* findNextTableSibling (parse.ts 201-218).                                *)
(***************************************************************************)
\* Mutant of scanForTable: an h2 does not end the scan.
RECURSIVE scanPastH2(_, _)
scanPastH2(r, next) ==
    IF next = NULL THEN NULL
    ELSE LET node == NodeAt(r, next)
         IN  IF isTag(node, "h1") THEN NULL
             ELSE IF isTag(node, "table") THEN next
             ELSE scanPastH2(r, nextSibling(r, next))

\* the loop of lines 203-217
RECURSIVE scanForTable(_, _)
scanForTable(r, next) ==
    IF next = NULL THEN NULL
    ELSE LET node == NodeAt(r, next)
         IN  IF isTag(node, "h2") THEN NULL
             ELSE IF isTag(node, "h1") THEN NULL
             ELSE IF isTag(node, "table") THEN next
             ELSE scanForTable(r, nextSibling(r, next))

findNextTableSibling(r, h2Node) == scanForTable(r, nextSibling(r, h2Node))

(***************************************************************************)
(* The inputs: documents.                                                  *)
(***************************************************************************)
SeqUpTo(S, n) == UNION { [1..k -> S] : k \in 0..n }

Heading(n, txt) == Tag(n, <<Text(txt)>>)

Vanguard == <<"Call of Duty: Vanguard">>

Warzone == <<"Call of Duty: Warzone 2.0">>

PromoCodes == <<"PromoCodes">>

\* padded, plain, and a text that differs from a whitelisted one only in case
H1Texts == { <<" ", "Call of Duty: Vanguard", " ">>, Warzone, <<"call of duty: vanguard">> }

H2Texts == { <<" ", "PromoCodes">>, <<"promocodes">> }

Cell(n, txt) == Tag(n, <<Text(txt)>>)

OneRowTable ==
    Tag("table", << Tag("tr", <<Cell("th", <<"Name">>)>>),
                    Tag("tr", <<Cell("td", <<"Code1">>)>>) >>)

EmptyTable == Tag("table", <<>>)

\* no header cell, and a row without data cells
EmptyRowTable == Tag("table", <<Tag("tr", <<>>)>>)

WhiteSpace == Text(<<" ">>)

\* a container with a section of its own, in which a sub-level heading repeats
Div ==
    Tag("div", << Heading("h1", Warzone), Heading("h2", PromoCodes), EmptyRowTable,
                  Heading("h2", PromoCodes), WhiteSpace, OneRowTable,
                  Heading("h2", PromoCodes) >>)

TopItems ==
    { Heading("h1", t) : t \in H1Texts } \cup { Heading("h2", t) : t \in H2Texts }
        \cup { OneRowTable, EmptyTable, Div }

\* documents of at most MaxTop top-level nodes
SectionDocs == { Document(kids) : kids \in SeqUpTo(TopItems, MaxTop) }

\* Tables of at most MaxNodes rows and cells, written in document order: a tr
\* opens a row, a cell goes into the open row, or under the table itself when
\* no row is open yet.
CellTexts == { <<" ", "Name", " ">>, <<"Code">> }

Cells == { Cell(n, t) : n \in {"th", "td"}, t \in CellTexts }

TableParts == Cells \cup { Tag("tr", <<>>) }

RECURSIVE addParts(_, _, _)
addParts(kids, parts, k) ==
    IF k > Len(parts) THEN kids
    ELSE LET p == parts[k]
             n == Len(kids)
         IN  IF ~isTag(p, "tr") /\ n > 0 /\ isTag(kids[n], "tr")
             THEN addParts([kids EXCEPT ![n] = Tag("tr", Append(kids[n].children, p))],
                           parts, k + 1)
             ELSE addParts(Append(kids, p), parts, k + 1)

Tables == { Tag("table", addParts(<<>>, parts, 1)) : parts \in SeqUpTo(TableParts, MaxNodes) }

TableDocs == { Document(<<t>>) : t \in Tables }

(***************************************************************************)
(* parseHtmlH1H2Tables (parse.ts 51-106), one action per step.             *)
(***************************************************************************)
\* one call on its own: no earlier call, no worker request
NoCallers ==
    /\ history = <<>>
    /\ requests = <<>>
    /\ now = 0
    /\ MY_BUCKET = <<>>
    /\ running = 0

Init ==
    /\ root \in SectionDocs
    /\ h1Elements = <<>>
    /\ parsed = <<>>
    /\ i = 1
    /\ sibling = NULL
    /\ tableNode = NULL
    /\ tableData = <<>>
    /\ pc = "start"
    /\ input = root
    /\ NoCallers

\* Mutant of Start: the result object outlives the call, as a module-level
\* object would.
StartKeepsParsed ==
    /\ pc = "start"
    /\ h1Elements' = findAll("h1", root, <<>>)
    /\ i' = 1
    /\ pc' = "for"
    /\ UNCHANGED callers
    /\ UNCHANGED <<root, parsed, sibling, tableNode, tableData>>

\* lines 52-57
Start ==
    /\ pc = "start"
    /\ h1Elements' = findAll("h1", root, <<>>)
    /\ parsed' = <<>>
    /\ i' = 1
    /\ pc' = "for"
    /\ UNCHANGED callers
    /\ UNCHANGED <<root, sibling, tableNode, tableData>>

h1Node == h1Elements[i]

\* Mutant of h1Text: the text is not trimmed.
h1TextRaw == textContent(NodeAt(root, h1Node))

h1Text == trim(textContent(NodeAt(root, h1Node)))

nextH1Node == IF i + 1 <= Len(h1Elements) THEN h1Elements[i + 1] ELSE NULL

\* lines 60-68: the h1 is not whitelisted
SkipH1 ==
    /\ pc = "for"
    /\ i <= Len(h1Elements)
    /\ h1Text \notin H1_WHITELIST
    /\ i' = i + 1
    /\ UNCHANGED callers
    /\ UNCHANGED <<root, h1Elements, parsed, sibling, tableNode, tableData, pc>>

\* Mutant of AcceptH1: a sub-map that exists is kept.
AcceptH1Merge ==
    /\ pc = "for"
    /\ i <= Len(h1Elements)
    /\ h1Text \in H1_WHITELIST
    /\ parsed' = IF HasKey(parsed, h1Text) THEN parsed ELSE Put(parsed, h1Text, <<>>)
    /\ sibling' = nextSibling(root, h1Node)
    /\ pc' = "while"
    /\ UNCHANGED callers
    /\ UNCHANGED <<root, h1Elements, i, tableNode, tableData>>

\* lines 60-77: the h1 is whitelisted
AcceptH1 ==
    /\ pc = "for"
    /\ i <= Len(h1Elements)
    /\ h1Text \in H1_WHITELIST
    /\ parsed' = Put(parsed, h1Text, <<>>)
    /\ sibling' = nextSibling(root, h1Node)
    /\ pc' = "while"
    /\ UNCHANGED callers
    /\ UNCHANGED <<root, h1Elements, i, tableNode, tableData>>

\* line 78: the walk ends; line 60: i++
EndSection ==
    /\ pc = "while"
    /\ (sibling = NULL \/ sibling = nextH1Node)
    /\ i' = i + 1
    /\ pc' = "for"
    /\ UNCHANGED callers
    /\ UNCHANGED <<root, h1Elements, parsed, sibling, tableNode, tableData>>

h2Text == trim(textContent(NodeAt(root, sibling)))

\* lines 79, 101: the sibling is no h2
SkipSibling ==
    /\ pc = "while"
    /\ sibling # NULL /\ sibling # nextH1Node
    /\ ~isTag(NodeAt(root, sibling), "h2")
    /\ sibling' = nextSibling(root, sibling)
    /\ UNCHANGED callers
    /\ UNCHANGED <<root, h1Elements, parsed, i, tableNode, tableData, pc>>

\* lines 79-87: the h2 is not whitelisted
SkipH2 ==
    /\ pc = "while"
    /\ sibling # NULL /\ sibling # nextH1Node
    /\ isTag(NodeAt(root, sibling), "h2")
    /\ h2Text \notin H2_WHITELIST
    /\ sibling' = nextSibling(root, sibling)
    /\ UNCHANGED callers
    /\ UNCHANGED <<root, h1Elements, parsed, i, tableNode, tableData, pc>>

\* lines 79-90: the h2 is whitelisted, look for its table
FindTable ==
    /\ pc = "while"
    /\ sibling # NULL /\ sibling # nextH1Node
    /\ isTag(NodeAt(root, sibling), "h2")
    /\ h2Text \in H2_WHITELIST
    /\ tableNode' = findNextTableSibling(root, sibling)
    /\ pc' = "table"
    /\ UNCHANGED callers
    /\ UNCHANGED <<root, h1Elements, parsed, i, sibling, tableData>>

\* Mutant of StoreTable: a key that exists keeps its sequence.
StoreTableKeepFirst ==
    /\ pc = "table"
    /\ tableNode # NULL
    /\ tableData' = parseSingleTable(root, tableNode)
    /\ parsed' = Put(parsed, h1Text, PutIfAbsent(Get(parsed, h1Text), h2Text, tableData'))
    /\ pc' = "stored"
    /\ UNCHANGED callers
    /\ UNCHANGED <<root, h1Elements, i, sibling, tableNode>>

\* Mutant of StoreTable: an empty sequence is not stored.
StoreTableNonEmpty ==
    /\ pc = "table"
    /\ tableNode # NULL
    /\ tableData' = parseSingleTable(root, tableNode)
    /\ parsed' = IF tableData' = <<>> THEN parsed
                  ELSE Put(parsed, h1Text, Put(Get(parsed, h1Text), h2Text, tableData'))
    /\ pc' = "stored"
    /\ UNCHANGED callers
    /\ UNCHANGED <<root, h1Elements, i, sibling, tableNode>>

\* lines 91-96: a table was found
StoreTable ==
    /\ pc = "table"
    /\ tableNode # NULL
    /\ tableData' = parseSingleTable(root, tableNode)
    /\ parsed' = Put(parsed, h1Text, Put(Get(parsed, h1Text), h2Text, tableData'))
    /\ pc' = "stored"
    /\ UNCHANGED callers
    /\ UNCHANGED <<root, h1Elements, i, sibling, tableNode>>

\* line 101, after the table was stored
MoveOn ==
    /\ pc = "stored"
    /\ sibling' = nextSibling(root, sibling)
    /\ pc' = "while"
    /\ UNCHANGED callers
    /\ UNCHANGED <<root, h1Elements, parsed, i, tableNode, tableData>>

\* Mutant of NoTable: the key is stored with an empty sequence.
NoTableStoresEmpty ==
    /\ pc = "table"
    /\ tableNode = NULL
    /\ parsed' = Put(parsed, h1Text, Put(Get(parsed, h1Text), h2Text, <<>>))
    /\ sibling' = nextSibling(root, sibling)
    /\ pc' = "while"
    /\ UNCHANGED callers
    /\ UNCHANGED <<root, h1Elements, i, tableNode, tableData>>

\* lines 91, 101: no table was found
NoTable ==
    /\ pc = "table"
    /\ tableNode = NULL
    /\ sibling' = nextSibling(root, sibling)
    /\ pc' = "while"
    /\ UNCHANGED callers
    /\ UNCHANGED <<root, h1Elements, parsed, i, tableNode, tableData>>

\* lines 60, 105
Return ==
    /\ pc = "for"
    /\ i > Len(h1Elements)
    /\ pc' = "done"
    /\ UNCHANGED callers
    /\ UNCHANGED <<root, h1Elements, parsed, i, sibling, tableNode, tableData>>

Next ==
    \/ Start
    \/ SkipH1
    \/ AcceptH1
    \/ EndSection
    \/ SkipSibling
    \/ SkipH2
    \/ FindTable
    \/ StoreTable
    \/ MoveOn
    \/ NoTable
    \/ Return

Spec == Init /\ [][Next]_vars

(***************************************************************************)
(* parseSingleTable applied to a table on its own.                         *)
(***************************************************************************)
TableInit ==
    /\ root \in TableDocs
    /\ h1Elements = <<>>
    /\ parsed = <<>>
    /\ i = 1
    /\ sibling = NULL
    /\ tableNode = <<1>>
    /\ tableData = <<>>
    /\ pc = "parseSingleTable"
    /\ input = root
    /\ NoCallers

ParseTable ==
    /\ pc = "parseSingleTable"
    /\ tableData' = parseSingleTable(root, tableNode)
    /\ pc' = "returned"
    /\ UNCHANGED callers
    /\ UNCHANGED <<root, h1Elements, parsed, i, sibling, tableNode>>

TableNext == ParseTable

SpecTable == TableInit /\ [][TableNext]_vars

(***************************************************************************)
(* Notions the properties are stated in.                                   *)
(***************************************************************************)
RECURSIVE PathsIn(_, _)
PathsIn(node, path) ==
    {path} \cup UNION { PathsIn(node.children[k], Append(path, k)) : k \in DOMAIN node.children }

AllPaths == PathsIn(root, <<>>)

Elements(n) == { p \in AllPaths : isTag(NodeAt(root, p), n) }

\* p comes before q in document order
Before(p, q) ==
    \E k \in 1..Len(q) :
        /\ k <= Len(p) + 1
        /\ SubSeq(p, 1, k - 1) = SubSeq(q, 1, k - 1)
        /\ IF k = Len(p) + 1 THEN TRUE ELSE p[k] < q[k]

FollowingSiblings(p) ==
    IF p = <<>> THEN {}
    ELSE { Append(parentOf(p), k) :
             k \in (p[Len(p)] + 1)..Len(NodeAt(root, parentOf(p)).children) }

TextOf(p) == trim(textContent(NodeAt(root, p)))

Index(p) == p[Len(p)]

ElementsIn(n, p) == { q \in PathsIn(NodeAt(root, p), p) : isTag(NodeAt(root, q), n) }

\* the first table among the following siblings of p, unless an h1 or an h2
\* comes before it
TableAfter(p) ==
    LET stops == { q \in FollowingSiblings(p) :
                     \E n \in {"h1", "h2", "table"} : isTag(NodeAt(root, q), n) }
    IN  IF stops = {} THEN NULL
        ELSE LET f == CHOOSE q \in stops : \A q2 \in stops : Index(q) <= Index(q2)
             IN  IF isTag(NodeAt(root, f), "table") THEN f ELSE NULL

\* The section of the h1 element H as the extractor delimits it: the following
\* siblings of H up to the h1 element that comes next in document order.
\* (C1 is about this extent.)
FollowingH1(H) ==
    LET later == { q \in Elements("h1") : Before(H, q) }
    IN  IF later = {} THEN NULL
        ELSE CHOOSE q \in later : \A q2 \in later \ {q} : Before(q, q2)

SectionOf(H) ==
    LET n == FollowingH1(H)
        sibs == FollowingSiblings(H)
    IN  IF n \in sibs THEN { q \in sibs : Index(q) < Index(n) } ELSE sibs

\* the sub-level headings of the section that are accepted and have a table
Subsections(H) ==
    { S \in SectionOf(H) :
        /\ isTag(NodeAt(root, S), "h2")
        /\ TextOf(S) \in H2_WHITELIST
        /\ TableAfter(S) # NULL }

\* the last h1 element with text t
LastH1(t) ==
    LET named == { H \in Elements("h1") : TextOf(H) = t }
    IN  CHOOSE H \in named : \A G \in named \ {H} : Before(G, H)

\* the last subsection of H with text k
LastSubsection(H, k) ==
    LET named == { S \in Subsections(H) : TextOf(S) = k }
    IN  CHOOSE S \in named : \A R \in named : Index(R) <= Index(S)

(***************************************************************************)
(* C1. Section scoping: a sub-level heading S contributes an entry to the  *)
(* sub-map of a retained top-level heading H only if S is a following      *)
(* sibling of H and no h1 element, wherever it is in the tree, lies        *)
(* between H and S in document order.                                      *)
(***************************************************************************)
C1_SectionScoping ==
    pc = "stored" =>
        /\ sibling \in FollowingSiblings(h1Node)
        /\ ~ \E q \in Elements("h1") : Before(h1Node, q) /\ Before(q, sibling)

(***************************************************************************)
(* C3. Top-level key set: the top-level keys of the result are exactly the *)
(* trimmed texts of the h1 elements that are in the top-level whitelist;   *)
(* a document without such an h1 gives the empty mapping, and a retained   *)
(* h1 that no h2 follows has its key with an empty sub-map.                *)
(***************************************************************************)
C3_TopLevelKeys ==
    pc = "done" =>
        /\ Keys(parsed) = { TextOf(p) : p \in Elements("h1") } \cap H1_WHITELIST
        /\ Len(parsed) = Cardinality(Keys(parsed))
        /\ \A t \in Keys(parsed) :
              (\A p \in Elements("h1") :
                  TextOf(p) = t => \A q \in FollowingSiblings(p) : ~isTag(NodeAt(root, q), "h2"))
                  => Get(parsed, t) = <<>>

\* a padded and a plain whitelisted h1, an h1 that differs in case only
C3_Witness ==
    /\ pc = "done"
    /\ Keys(parsed) = {Vanguard, Warzone}
    /\ \E p \in Elements("h1") : TextOf(p) \notin H1_WHITELIST
    /\ \E p \in Elements("h1") : textContent(NodeAt(root, p)) # TextOf(p)

(***************************************************************************)
(* C2. Sub-level key presence: in the result, a key k is present under a   *)
(* top-level key t only if the section that t stands for (the one of the   *)
(* last h1 with that text) holds an h2 whose trimmed text is k, k is in    *)
(* the sub-level whitelist, and a table follows that h2 before the next    *)
(* h1 or h2; a whitelisted h2 without such a table adds no key.            *)
(***************************************************************************)
C2_SubLevelKeyPresence ==
    pc = "done" =>
        \A t \in Keys(parsed) :
            /\ Keys(Get(parsed, t)) \subseteq { TextOf(S) : S \in Subsections(LastH1(t)) }
            /\ Len(Get(parsed, t)) = Cardinality(Keys(Get(parsed, t)))

\* a whitelisted h2 without a table in a retained section, its key absent
C2_Witness ==
    /\ pc = "done"
    /\ \E t \in Keys(parsed) :
          /\ \E S \in SectionOf(LastH1(t)) :
                /\ isTag(NodeAt(root, S), "h2")
                /\ TextOf(S) \in H2_WHITELIST
                /\ TableAfter(S) = NULL
          /\ Get(parsed, t) = <<>>
    /\ \E t \in Keys(parsed) : Get(parsed, t) # <<>>

(***************************************************************************)
(* C7. Table locator: findNextTableSibling(h2) returns the first table     *)
(* among the following siblings of the h2 when no h1 or h2 sibling comes   *)
(* before it, and not-found otherwise (a heading first, or no table at     *)
(* all); the sequence stored for the h2 is the one of that first table,    *)
(* whatever tables follow it.                                              *)
(***************************************************************************)
C7_TableLocator ==
    /\ pc \in {"table", "stored"} => tableNode = TableAfter(sibling)
    /\ pc = "stored" =>
          /\ tableNode # NULL
          /\ Get(Get(parsed, TextOf(h1Node)), TextOf(sibling))
                = parseSingleTable(root, TableAfter(sibling))

\* two tables follow the h2, the second one with other content
C7_Witness ==
    /\ pc = "stored"
    /\ \E q \in FollowingSiblings(tableNode) :
          /\ isTag(NodeAt(root, q), "table")
          /\ \A m \in FollowingSiblings(tableNode) :
                Index(m) < Index(q) => NodeAt(root, m).type = "text"
          /\ parseSingleTable(root, q) # tableData
    /\ Get(Get(parsed, TextOf(h1Node)), TextOf(sibling)) = tableData

(***************************************************************************)
(* C8. Duplicate top-level headings: when several whitelisted h1 elements  *)
(* have the same text, the sub-map under that text in the result is the    *)
(* one of the section of the last of them - its accepted subsections and   *)
(* nothing else, so nothing of an earlier occurrence survives, also when   *)
(* the last occurrence has no accepted subsection.                         *)
(***************************************************************************)
C8_DuplicateTopLevel ==
    pc = "done" =>
        \A t \in Keys(parsed) :
            Cardinality({ H \in Elements("h1") : TextOf(H) = t }) > 1 =>
                /\ Keys(Get(parsed, t)) = { TextOf(S) : S \in Subsections(LastH1(t)) }
                /\ \A S \in Subsections(LastH1(t)) :
                      \E R \in Subsections(LastH1(t)) :
                          /\ TextOf(R) = TextOf(S)
                          /\ Get(Get(parsed, t), TextOf(S))
                                = parseSingleTable(root, TableAfter(R))

\* an earlier occurrence has a subsection, the last one has none
C8_Witness ==
    /\ pc = "done"
    /\ \E t \in Keys(parsed) :
          /\ \E H \in Elements("h1") :
                TextOf(H) = t /\ H # LastH1(t) /\ Subsections(H) # {}
          /\ Subsections(LastH1(t)) = {}
          /\ Get(parsed, t) = <<>>

(***************************************************************************)
(* C9. Duplicate sub-level headings: the sequence stored under a           *)
(* sub-level key is the table of the last h2 with that text in the section *)
(* that has a table: a later occurrence with a table overwrites, a later   *)
(* occurrence without a table changes nothing.                             *)
(***************************************************************************)
C9_DuplicateSubLevel ==
    pc = "done" =>
        \A t \in Keys(parsed) :
            \A k \in Keys(Get(parsed, t)) :
                /\ \E S \in Subsections(LastH1(t)) : TextOf(S) = k
                /\ Get(Get(parsed, t), k)
                      = parseSingleTable(root, TableAfter(LastSubsection(LastH1(t), k)))

H2sNamed(H, k) ==
    { S \in SectionOf(H) : isTag(NodeAt(root, S), "h2") /\ TextOf(S) = k }

\* one section overwrites a sequence by a different one, another section keeps
\* the sequence of an h2 that is followed by the same heading without a table
C9_Witness ==
    /\ pc = "done"
    /\ \E t \in Keys(parsed), k \in H2_WHITELIST :
          \E S \in Subsections(LastH1(t)) :
              /\ TextOf(S) = k
              /\ S # LastSubsection(LastH1(t), k)
              /\ parseSingleTable(root, TableAfter(S)) # Get(Get(parsed, t), k)
    /\ \E t \in Keys(parsed), k \in H2_WHITELIST :
          \E S \in H2sNamed(LastH1(t), k) :
              /\ \E R \in Subsections(LastH1(t)) : TextOf(R) = k
              /\ TableAfter(S) = NULL
              /\ Index(S) > Index(LastSubsection(LastH1(t), k))
              /\ Get(Get(parsed, t), k) # <<>>

(***************************************************************************)
(* C6. Empty table: a table without header cells, or without rows, gives   *)
(* the empty sequence, and that sequence is stored under the sub-level key *)
(* (the key is present, with an empty sequence).                           *)
(***************************************************************************)
Stored == Get(Get(parsed, TextOf(h1Node)), TextOf(sibling))

C6_EmptyTable ==
    (pc = "stored" /\ (ElementsIn("th", tableNode) = {} \/ ElementsIn("tr", tableNode) = {})) =>
        /\ tableData = <<>>
        /\ HasKey(Get(parsed, TextOf(h1Node)), TextOf(sibling))
        /\ Stored = <<>>

(***************************************************************************)
(* C6 as amended: a table without rows, or without header cells and        *)
(* without a row that has no data cell, gives the empty sequence, which is *)
(* stored under the sub-level key; a table without header cells gives one  *)
(* empty record for each of its rows that has no data cell.                *)
(***************************************************************************)
C6_EmptyTableAmended ==
    pc = "stored" =>
        /\ HasKey(Get(parsed, TextOf(h1Node)), TextOf(sibling))
        /\ Stored = tableData
        /\ ElementsIn("tr", tableNode) = {} => tableData = <<>>
        /\ ElementsIn("th", tableNode) = {} =>
              /\ Len(tableData)
                    = Cardinality({ r \in ElementsIn("tr", tableNode) : ElementsIn("td", r) = {} })
              /\ \A j \in DOMAIN tableData : tableData[j] = <<>>

\* a table without rows was found, and the empty sequence stored
C6_Witness ==
    /\ pc = "stored"
    /\ ElementsIn("tr", tableNode) = {}
    /\ HasKey(Get(parsed, TextOf(h1Node)), TextOf(sibling))
    /\ Stored = <<>>

(***************************************************************************)
(* Notions of the table properties: the table is the node tableNode.       *)
(***************************************************************************)
\* the position of p among the nodes of S, in document order
Rank(p, S) == Cardinality({ q \in S : Before(q, p) }) + 1

Nth(S, j) == CHOOSE p \in S : Rank(p, S) = j

Ths == ElementsIn("th", tableNode)

NH == Cardinality(Ths)

\* the text of header cell c, and of data cell c of row r
Hdr(c) == TextOf(Nth(Ths, c))

Val(r, c) == TextOf(Nth(ElementsIn("td", r), c))

\* the rows that have as many data cells as the table has header cells
Aligned == { r \in ElementsIn("tr", tableNode) : Cardinality(ElementsIn("td", r)) = NH }

EmittedFor(r) == tableData[Rank(r, Aligned)]

HdrTexts == { Hdr(c) : c \in 1..NH }

\* the last column with header text h
LastCol(h) == CHOOSE c \in 1..NH : Hdr(c) = h /\ \A d \in 1..NH : Hdr(d) = h => d <= c

\* the columns whose header text appears there for the first time
FirstCols == { c \in 1..NH : \A d \in 1..(c - 1) : Hdr(d) # Hdr(c) }

\* the record of row r: a field for each header text, in the order of first
\* appearance, with the text of the data cell of the last column of that text
RecordOf(r) ==
    [ j \in 1..Cardinality(FirstCols) |->
        LET c == CHOOSE c \in FirstCols : Cardinality({ d \in FirstCols : d < c }) = j - 1
        IN  <<Hdr(c), Val(r, LastCol(Hdr(c)))>> ]

C5_StrictAlignment ==
    pc = "returned" =>
        /\ Len(tableData) = Cardinality(Aligned)
        /\ \A r \in Aligned : EmittedFor(r) = RecordOf(r)

\* a discarded row between two aligned rows with different records
C5_Witness ==
    /\ pc = "returned"
    /\ NH > 0
    /\ \E a \in Aligned, b \in Aligned :
          \E r \in ElementsIn("tr", tableNode) \ Aligned : Before(a, r) /\ Before(r, b)
    /\ Len(tableData) = 2
    /\ tableData[1] # tableData[2]

(***************************************************************************)
(* C10. Duplicate column headers: when header cells have the same text,    *)
(* every record holds under that text the data cell of the last column     *)
(* with that header; a record has one field for each distinct header text, *)
(* and all records of a table have the same keys.                          *)
(***************************************************************************)
C10_DuplicateHeaders ==
    pc = "returned" =>
        /\ \A j \in DOMAIN tableData :
              /\ Keys(tableData[j]) = HdrTexts
              /\ Len(tableData[j]) = Cardinality(HdrTexts)
        /\ Len(tableData) = Cardinality(Aligned)
        /\ \A r \in Aligned : \A h \in HdrTexts :
              Get(EmittedFor(r), h) = Val(r, LastCol(h))

\* two headers with the same text, and a row with two different cells
C10_Witness ==
    /\ pc = "returned"
    /\ NH = 2
    /\ Cardinality(HdrTexts) = 1
    /\ \E r \in Aligned :
          /\ Val(r, 1) # Val(r, 2)
          /\ EmittedFor(r) = << <<Hdr(1), Val(r, 2)>> >>

(***************************************************************************)
(* The worker (src/src/index.ts) and uploadParsedFile                      *)
(* (src/src/lib/functions/upload.ts).                                      *)
(*                                                                         *)
(* A value that may be missing (a header, a query parameter) is null or    *)
(* <<s>> for the string s.  A request is a record of what it carried, of   *)
(* where its handler is (at), of the response (status 0: none yet), and of *)
(* the steps the handler took (events).  The handler runs from one await   *)
(* to the next without interruption, so the extractor, which is            *)
(* synchronous, runs while no other handler moves.                         *)
(***************************************************************************)
MaxRequests == 2

MaxClock == 1

null == <<>>

\* !x for a value that is null or a string
falsy(x) == x = null \/ x = <<"">>

\* env.API_KEY
API_KEY == "secret"

ApiKeys == { null, <<"other">>, <<API_KEY>> }

FileUrls == { null, <<"https://files.example/export.html">> }

UserIds == { null, <<"u1">> }

\* what the file url serves
ExportA ==
    Document(<< Heading("h1", <<"call of duty: vanguard">>), Heading("h1", Vanguard),
                WhiteSpace, Heading("h2", <<"promocodes">>), Heading("h2", PromoCodes),
                OneRowTable, Heading("h2", PromoCodes) >>)

ExportB == Document(<< Heading("h1", Warzone), Heading("h2", PromoCodes), OneRowTable >>)

Exports == { ExportA, ExportB }

\* JSON.stringify(value, null, 2): the text of the value
JSONstringify(value) == <<"json", value>>

\* index.ts 33, 41, 45, 67: a response without upload
Response(request, status) ==
    [request EXCEPT !.at = "responded", !.status = status,
                    !.events = Append(request.events, "response")]

Arrived(apiKey, fileUrl, userId) ==
    [apiKey |-> apiKey, fileUrl |-> fileUrl, userId |-> userId, at |-> "arrived",
     status |-> 0, events |-> <<>>, objectKey |-> null, jsonString |-> null,
     body |-> null]

At(r, where) == r \in DOMAIN requests /\ requests[r].at = where

Did(r, event) == \E k \in DOMAIN requests[r].events : requests[r].events[k] = event

WorkerInit ==
    /\ root = Document(<<>>)
    /\ h1Elements = <<>>
    /\ parsed = <<>>
    /\ i = 1
    /\ sibling = NULL
    /\ tableNode = NULL
    /\ tableData = <<>>
    /\ pc = "idle"
    /\ input = root
    /\ NoCallers

\* the call of parseHtmlH1H2Tables is over: its locals are gone
Unwind ==
    /\ root' = Document(<<>>)
    /\ h1Elements' = <<>>
    /\ parsed' = <<>>
    /\ i' = 1
    /\ sibling' = NULL
    /\ tableNode' = NULL
    /\ tableData' = <<>>
    /\ pc' = "idle"
    /\ input' = Document(<<>>)

\* Mutant of fetch: the parameters are examined before the api key.
fetchParametersFirst ==
    /\ pc = "idle"
    /\ Len(requests) < MaxRequests
    /\ \E apiKey \in ApiKeys, fileUrl \in FileUrls, userId \in UserIds :
          LET request == Arrived(apiKey, fileUrl, userId)
          IN  requests' = Append(requests,
                  IF falsy(fileUrl) THEN Response(request, 400)
                  ELSE IF falsy(userId) THEN Response(request, 400)
                  ELSE IF falsy(apiKey) \/ apiKey # <<API_KEY>> THEN Response(request, 401)
                  ELSE [request EXCEPT !.at = "fetch", !.events = <<"fetch">>])
    /\ UNCHANGED <<root, h1Elements, parsed, i, sibling, tableNode, tableData, pc>>
    /\ UNCHANGED <<input, history, now, MY_BUCKET, running>>

\* index.ts 30-50: a request arrives; it is refused, or the file is asked for
fetch ==
    /\ pc = "idle"
    /\ Len(requests) < MaxRequests
    /\ \E apiKey \in ApiKeys, fileUrl \in FileUrls, userId \in UserIds :
          LET request == Arrived(apiKey, fileUrl, userId)
          IN  requests' = Append(requests,
                  IF falsy(apiKey) \/ apiKey # <<API_KEY>> THEN Response(request, 401)
                  ELSE IF falsy(fileUrl) THEN Response(request, 400)
                  ELSE IF falsy(userId) THEN Response(request, 400)
                  ELSE [request EXCEPT !.at = "fetch", !.events = <<"fetch">>])
    /\ UNCHANGED <<root, h1Elements, parsed, i, sibling, tableNode, tableData, pc>>
    /\ UNCHANGED <<input, history, now, MY_BUCKET, running>>

\* index.ts 50, 55, 66-68: fetch(fileUrl) or response.text() rejects
FetchRejected ==
    /\ pc = "idle"
    /\ \E r \in DOMAIN requests :
          /\ At(r, "fetch") \/ At(r, "text")
          /\ requests' = [requests EXCEPT ![r] =
                 Response([@ EXCEPT !.events = Append(@, "rejected")], 500)]
    /\ UNCHANGED <<root, h1Elements, parsed, i, sibling, tableNode, tableData, pc>>
    /\ UNCHANGED <<input, history, now, MY_BUCKET, running>>

\* Mutant of FetchNotOk: the status of the file response is not looked at.
FetchNotOkIgnored ==
    /\ pc = "idle"
    /\ \E r \in DOMAIN requests :
          /\ At(r, "fetch")
          /\ requests' = [requests EXCEPT ![r] =
                 [@ EXCEPT !.at = "text", !.events = Append(@, "not ok")]]
    /\ UNCHANGED <<root, h1Elements, parsed, i, sibling, tableNode, tableData, pc>>
    /\ UNCHANGED <<input, history, now, MY_BUCKET, running>>

\* index.ts 50-53, 66-68: the file response is not ok
FetchNotOk ==
    /\ pc = "idle"
    /\ \E r \in DOMAIN requests :
          /\ At(r, "fetch")
          /\ requests' = [requests EXCEPT ![r] =
                 Response([@ EXCEPT !.events = Append(@, "not ok")], 500)]
    /\ UNCHANGED <<root, h1Elements, parsed, i, sibling, tableNode, tableData, pc>>
    /\ UNCHANGED <<input, history, now, MY_BUCKET, running>>

\* index.ts 50-55: the file response is ok, its text is asked for
FetchOk ==
    /\ pc = "idle"
    /\ \E r \in DOMAIN requests :
          /\ At(r, "fetch")
          /\ requests' = [requests EXCEPT ![r] =
                 [@ EXCEPT !.at = "text", !.events = Append(@, "ok")]]
    /\ UNCHANGED <<root, h1Elements, parsed, i, sibling, tableNode, tableData, pc>>
    /\ UNCHANGED <<input, history, now, MY_BUCKET, running>>

\* index.ts 55-58: the text arrives and parseHtmlH1H2Tables is called with it
Parse ==
    /\ pc = "idle"
    /\ \E r \in DOMAIN requests, htmlContent \in Exports :
          /\ At(r, "text")
          /\ requests' = [requests EXCEPT ![r] =
                 [@ EXCEPT !.at = "parse", !.events = Append(@, "parse")]]
          /\ running' = r
          /\ root' = htmlContent
          /\ input' = htmlContent
    /\ pc' = "start"
    /\ UNCHANGED <<h1Elements, parsed, i, sibling, tableNode, tableData>>
    /\ UNCHANGED <<history, now, MY_BUCKET>>

\* index.ts 58, 66-68: the call throws (parse.ts 51-106 catches nothing)
ParseThrows ==
    /\ pc = "start"
    /\ running # 0
    /\ requests' = [requests EXCEPT ![running] =
           Response([@ EXCEPT !.events = Append(@, "thrown")], 500)]
    /\ running' = 0
    /\ Unwind
    /\ UNCHANGED <<history, now, MY_BUCKET>>

\* upload.ts 37
objectKey(userId) == <<now, "-">> \o userId \o <<"-data">>

\* index.ts 58-60, upload.ts 32-40: the call returned; the put is started
uploadParsedFile ==
    /\ pc = "done"
    /\ running # 0
    /\ requests' = [requests EXCEPT ![running] =
           [@ EXCEPT !.at = "put",
                     !.jsonString = JSONstringify(parsed),
                     !.objectKey = objectKey(requests[running].userId),
                     !.events = @ \o <<"parsed", "put">>]]
    /\ running' = 0
    /\ Unwind
    /\ UNCHANGED <<history, now, MY_BUCKET>>

\* upload.ts 40, index.ts 66-68: the put rejects
PutRejected ==
    /\ pc = "idle"
    /\ \E r \in DOMAIN requests :
          /\ At(r, "put")
          /\ requests' = [requests EXCEPT ![r] =
                 Response([@ EXCEPT !.events = Append(@, "put rejected")], 500)]
    /\ UNCHANGED <<root, h1Elements, parsed, i, sibling, tableNode, tableData, pc>>
    /\ UNCHANGED <<input, history, now, MY_BUCKET, running>>

\* upload.ts 40: the put completes, the bucket holds the text under the key
PutDone ==
    /\ pc = "idle"
    /\ \E r \in DOMAIN requests :
          /\ At(r, "put")
          /\ MY_BUCKET' = Put(MY_BUCKET, requests[r].objectKey, requests[r].jsonString)
          /\ requests' = [requests EXCEPT ![r] =
                 [@ EXCEPT !.at = "stored", !.events = Append(@, "stored")]]
    /\ UNCHANGED <<root, h1Elements, parsed, i, sibling, tableNode, tableData, pc>>
    /\ UNCHANGED <<input, history, now, running>>

\* upload.ts 43-45, index.ts 60-65
Respond ==
    /\ pc = "idle"
    /\ \E r \in DOMAIN requests :
          /\ At(r, "stored")
          /\ requests' = [requests EXCEPT ![r] =
                 Response([@ EXCEPT !.body =
                     <<"https://cdn.cod-stats.jconet.ltd/">> \o requests[r].objectKey], 200)]
    /\ UNCHANGED <<root, h1Elements, parsed, i, sibling, tableNode, tableData, pc>>
    /\ UNCHANGED <<input, history, now, MY_BUCKET, running>>

\* Date.now() (upload.ts 37) grows with time, a millisecond at a time
Tick ==
    /\ pc = "idle"
    /\ now < MaxClock
    /\ now' = now + 1
    /\ UNCHANGED <<root, h1Elements, parsed, i, sibling, tableNode, tableData, pc>>
    /\ UNCHANGED <<input, history, requests, MY_BUCKET, running>>

WorkerNext ==
    \/ fetch
    \/ FetchRejected
    \/ FetchNotOk
    \/ FetchOk
    \/ Parse
    \/ ParseThrows
    \/ Start
    \/ SkipH1
    \/ AcceptH1
    \/ EndSection
    \/ SkipSibling
    \/ SkipH2
    \/ FindTable
    \/ StoreTable
    \/ MoveOn
    \/ NoTable
    \/ Return
    \/ uploadParsedFile
    \/ PutRejected
    \/ PutDone
    \/ Respond
    \/ Tick

SpecWorker == WorkerInit /\ [][WorkerNext]_vars

(***************************************************************************)
(* C11. Request gating: a request whose x-api-key header is missing or     *)
(* differs from env.API_KEY is answered 401, whatever its parameters are;  *)
(* a request with the right key that lacks the file or the userId          *)
(* parameter is answered 400; for none of them the file is fetched or a    *)
(* put to the bucket is made.                                              *)
(***************************************************************************)
Unauthorized(r) == requests[r].apiKey = null \/ requests[r].apiKey # <<API_KEY>>

Incomplete(r) == requests[r].fileUrl = null \/ requests[r].userId = null

C12_UniqueObjectKeys ==
    /\ \A r, q \in DOMAIN requests :
          r # q /\ Did(r, "put") /\ Did(q, "put")
              => requests[r].objectKey # requests[q].objectKey
    /\ \A r \in DOMAIN requests :
          Did(r, "stored")
              => /\ HasKey(MY_BUCKET, requests[r].objectKey)
                 /\ Get(MY_BUCKET, requests[r].objectKey) = requests[r].jsonString

\* two uploads under one key, the second put replacing what the first stored
C12_Overwritten ==
    \E r, q \in DOMAIN requests :
        /\ r # q
        /\ Did(r, "stored") /\ Did(q, "stored")
        /\ requests[r].objectKey = requests[q].objectKey
        /\ requests[r].jsonString # requests[q].jsonString
        /\ Len(MY_BUCKET) = 1

(***************************************************************************)
(* parseHtmlH1H2Tables called again and again, on documents in any order.  *)
(* The values a call leaves in its locals stay in the state, so that a     *)
(* later call that used one of them would show.  history records, for      *)
(* each call that returned, the document it was given, the tree as the     *)
(* call left it, and the result.                                           *)
(***************************************************************************)
MaxCalls == 3

CallsInit ==
    /\ root = Document(<<>>)
    /\ h1Elements = <<>>
    /\ parsed = <<>>
    /\ i = 1
    /\ sibling = NULL
    /\ tableNode = NULL
    /\ tableData = <<>>
    /\ pc = "idle"
    /\ input = root
    /\ NoCallers

\* parse.ts 51: the function is called with a document
Call ==
    /\ pc = "idle"
    /\ Len(history) < MaxCalls
    /\ \E html \in Exports :
          /\ root' = html
          /\ input' = html
    /\ pc' = "start"
    /\ UNCHANGED <<h1Elements, parsed, i, sibling, tableNode, tableData>>
    /\ UNCHANGED <<history, requests, now, MY_BUCKET, running>>

\* parse.ts 105: the caller has the result
Returned ==
    /\ pc = "done"
    /\ history' = Append(history, [input |-> input, root |-> root, result |-> parsed])
    /\ pc' = "idle"
    /\ UNCHANGED <<root, h1Elements, parsed, i, sibling, tableNode, tableData>>
    /\ UNCHANGED <<input, requests, now, MY_BUCKET, running>>

CallsNext ==
    \/ Call
    \/ Start
    \/ SkipH1
    \/ AcceptH1
    \/ EndSection
    \/ SkipSibling
    \/ SkipH2
    \/ FindTable
    \/ StoreTable
    \/ MoveOn
    \/ NoTable
    \/ Return
    \/ Returned

SpecCalls == CallsInit /\ [][CallsNext]_vars

(***************************************************************************)
(* C13. Determinism and statelessness: two calls on the same document      *)
(* return equal results, whatever calls on other documents came before or  *)
(* between them, and a call leaves the tree it was given as it was.        *)
(***************************************************************************)
C13_Deterministic ==
    /\ \A a, b \in DOMAIN history :
          history[a].input = history[b].input => history[a].result = history[b].result
    /\ \A a \in DOMAIN history : history[a].root = history[a].input

\* a document parsed, then another with another result, then the first again
C13_Witness ==
    /\ Len(history) = 3
    /\ history[1].input = history[3].input
    /\ history[2].input # history[1].input
    /\ history[1].result # <<>>
    /\ history[2].result # <<>>
    /\ history[2].result # history[1].result

(***************************************************************************)
(* C14. Handler ordering: for a request that passed the gate the steps     *)
(* come in the order fetch, parse, put, response.  The put is made at most *)
(* once, and only after the file response was ok and the parse returned;   *)
(* the status is 200 only after the put completed; a fetch that rejects    *)
(* or is not ok, a parse that throws and a put that rejects each give      *)
(* status 500, and after a failed fetch or parse no put is made.           *)
(***************************************************************************)
\* the place of the first occurrence of the event, 0 when there is none
Pos(r, event) ==
    LET at == { k \in DOMAIN requests[r].events : requests[r].events[k] = event }
    IN  IF at = {} THEN 0 ELSE CHOOSE k \in at : \A j \in at : k <= j

Times(r, event) ==
    Cardinality({ k \in DOMAIN requests[r].events : requests[r].events[k] = event })

FetchFailed(r) == Did(r, "rejected") \/ Did(r, "not ok")

C14_HandlerOrdering ==
    \A r \in DOMAIN requests :
        ~Unauthorized(r) /\ ~Incomplete(r) =>
            /\ Pos(r, "fetch") = 1
            /\ requests[r].status \in {0, 200, 500}
            /\ Times(r, "put") <= 1
            /\ Did(r, "parse") => Pos(r, "fetch") < Pos(r, "ok") /\ Pos(r, "ok") < Pos(r, "parse")
            /\ Did(r, "put") =>
                  /\ Did(r, "parse") /\ Did(r, "parsed")
                  /\ Pos(r, "parse") < Pos(r, "parsed") /\ Pos(r, "parsed") < Pos(r, "put")
            /\ Did(r, "stored") => Did(r, "put") /\ Pos(r, "put") < Pos(r, "stored")
            /\ Did(r, "response") => Pos(r, "response") = Len(requests[r].events)
            /\ requests[r].status = 200 =>
                  /\ Did(r, "stored") /\ Pos(r, "stored") < Pos(r, "response")
                  /\ HasKey(MY_BUCKET, requests[r].objectKey)
            /\ FetchFailed(r) \/ Did(r, "thrown") \/ Did(r, "put rejected")
                  => requests[r].status = 500
            /\ FetchFailed(r) \/ Did(r, "thrown")
                  => ~Did(r, "put") /\ requests[r].objectKey = null
            /\ requests[r].status = 500
                  => FetchFailed(r) \/ Did(r, "thrown") \/ Did(r, "put rejected")

\* a request answered 200 with its result in the bucket, and a request whose
\* parse threw, answered 500 without a put
C14_Witness ==
    \E r, q \in DOMAIN requests :
        /\ requests[r].status = 200
        /\ requests[r].events = <<"fetch", "ok", "parse", "parsed", "put", "stored", "response">>
        /\ Get(MY_BUCKET, requests[r].objectKey) = requests[r].jsonString
        /\ Did(q, "thrown") /\ requests[q].status = 500 /\ ~Did(q, "put")

====
